---- MODULE Spec2Model ----
(***************************************************************************)
(* A model of package lexrec (the lexer of src/unnamed/part_002, lines     *)
(* 446-982): the cursor over the growable buffer, the scan primitives, the *)
(* token emitter, the built-in field steps, the record driver run() and    *)
(* the unbuffered item channel between the driver task and the consumer.   *)
(*                                                                         *)
(* Bytes and runes are integers.  A Go string of a character set is the    *)
(* sequence of its runes.  An Item is [Type, Pos, Value, Msg, Arg]: Value  *)
(* holds the bytes of a token cut from the buffer; the text an Errorf call *)
(* formats is kept as its format (Msg) and its rune argument (Arg).        *)
(*                                                                         *)
(* The driver task is sequential and blocks only in a channel send, so the *)
(* lexer methods are operators over a machine record m: the Lexer fields,  *)
(* the reader's position, the sends performed so far (m.out, each with the *)
(* Lexer fields at the moment of the send) and the last results (m.r, the  *)
(* rune returned, m.ok, the boolean returned).  The actions of the driver  *)
(* replay m.out one send at a time through the channel.                    *)
(***************************************************************************)
EXTENDS Integers, Sequences, FiniteSets, TLC

(***************************************************************************)
(* Program constants.                                                      *)
(***************************************************************************)
EOF == -1

ItemError == 0

ItemEOR == 1

ItemEOF == 2

UTFMax == 4

RuneError == 65533

\* a variant of ChanCap: make(chan Item, 1), a channel that buffers one item
ChanCapOne == 0 + 1

\* make(chan Item): the item channel has no buffer.
ChanCap == 0

\* Skip compacts when cap/CompactDiv >= cap - pos.
CompactDiv == 10

(***************************************************************************)
(* Bounds of the model.                                                    *)
(***************************************************************************)
\* longest input drawn from the whole alphabet
MaxLen == 3

\* largest Record.Buflen
MaxBuflen == 2

\* the logs kept for the properties hold the first MaxLog entries
MaxLog == 16

\* the Read call that returns otherwise than the rest is among the first
\* MaxFaultAt
MaxFaultAt == 2

(***************************************************************************)
(* Helpers on sequences and integers.                                      *)
(***************************************************************************)
Min(a, b) == IF a <= b THEN a ELSE b

Max(a, b) == IF a >= b THEN a ELSE b

\* s[lo:hi] of Go: the elements lo .. hi-1, counted from 0
Slice(s, lo, hi) == SubSeq(s, lo + 1, hi)

SeqsUpTo(S, n) == UNION {[1..k -> S] : k \in 0..n}

IsPrefix(s, t) == Len(s) <= Len(t) /\ SubSeq(t, 1, Len(s)) = s

(***************************************************************************)
(* utf8.DecodeRune: the rune and the width decoded from a non-empty byte   *)
(* sequence.  An invalid or truncated encoding decodes as (RuneError, 1).  *)
(***************************************************************************)
IsCont(b) == b >= 128 /\ b <= 191

DecodeRune(p) ==
    LET n  == Len(p)
        b0 == p[1]
        bad == [r |-> RuneError, w |-> 1]
    IN  IF n = 0 THEN [r |-> RuneError, w |-> 0]
        ELSE IF b0 < 128 THEN [r |-> b0, w |-> 1]
        ELSE IF b0 >= 194 /\ b0 <= 223 THEN
            IF n >= 2 /\ IsCont(p[2])
            THEN [r |-> (b0 - 192) * 64 + (p[2] - 128), w |-> 2]
            ELSE bad
        ELSE IF b0 >= 224 /\ b0 <= 239 THEN
            IF n >= 3 /\ IsCont(p[2]) /\ IsCont(p[3])
               /\ (b0 = 224 => p[2] >= 160) /\ (b0 = 237 => p[2] <= 159)
            THEN [r |-> (b0 - 224) * 4096 + (p[2] - 128) * 64 + (p[3] - 128), w |-> 3]
            ELSE bad
        ELSE IF b0 >= 240 /\ b0 <= 244 THEN
            IF n >= 4 /\ IsCont(p[2]) /\ IsCont(p[3]) /\ IsCont(p[4])
               /\ (b0 = 240 => p[2] >= 144) /\ (b0 = 244 => p[2] <= 143)
            THEN [r |-> (b0 - 240) * 262144 + (p[2] - 128) * 4096
                        + (p[3] - 128) * 64 + (p[4] - 128), w |-> 4]
            ELSE bad
        ELSE bad

(***************************************************************************)
(* strings.IndexRune(s, r) >= 0 for a set s of valid runes: EOF (-1) is no *)
(* valid rune and is found in no string.                                   *)
(***************************************************************************)
IndexRune(s, r) ==
    IF r < 0 \/ ~(\E i \in 1..Len(s) : s[i] = r) THEN -1
    ELSE (CHOOSE i \in 1..Len(s) : s[i] = r /\ \A j \in 1..(i - 1) : s[j] # r) - 1

\* unicode.IsDigit, unicode.IsLetter, unicode.IsSpace on the runes below
\* U+0100 (RuneError and EOF are in none of the classes)
IsDigit(r) == r >= 48 /\ r <= 57

IsLetter(r) ==
    \/ (r >= 65 /\ r <= 90) \/ (r >= 97 /\ r <= 122)
    \/ r \in {170, 181, 186}
    \/ (r >= 192 /\ r <= 214) \/ (r >= 216 /\ r <= 246) \/ (r >= 248 /\ r <= 255)

IsSpace(r) == r \in {9, 10, 11, 12, 13, 32, 133, 160}

isAlphaNumeric(r) == r = 95 \/ IsLetter(r) \/ IsDigit(r)

(***************************************************************************)
(* Items.                                                                  *)
(***************************************************************************)
Item(t, pos, value) == [Type |-> t, Pos |-> pos, Value |-> value, Msg |-> "", Arg |-> 0]

ErrItem(pos, msg, arg) == [Type |-> ItemError, Pos |-> pos, Value |-> <<>>, Msg |-> msg, Arg |-> arg]

\* the zero value of Item, which a receive from the closed channel yields
ZeroItem == [Type |-> 0, Pos |-> 0, Value |-> <<>>, Msg |-> "", Arg |-> 0]

(***************************************************************************)
(* The Lexer fields and the reader's position: what a send's record keeps. *)
(*   buf, cap    l.buf and cap(l.buf)                                      *)
(*   src, rdn    bytes the reader has handed out, Read calls made (counted  *)
(*               up to the call e.fault.at)                                *)
(* A machine is a Lexer inside a call that run() makes, with               *)
(*   out         the sends of the call so far, each with the Lexer it was  *)
(*               made at                                                   *)
(*   r, ok       the results of the method that returned last              *)
(*   ops         the calls of Read and of the methods of Lexer, of the     *)
(*               field step and of the recovery routine in the call so     *)
(*               far, in the order of their returns                        *)
(*   panic       a slice expression has been out of range: the program     *)
(*               has stopped there                                         *)
(***************************************************************************)
LexerOf(m) ==
    [buf |-> m.buf, cap |-> m.cap, pos |-> m.pos, start |-> m.start,
     width |-> m.width, rpos |-> m.rpos, eof |-> m.eof,
     src |-> m.src, rdn |-> m.rdn]

Machine(l) ==
    [buf |-> l.buf, cap |-> l.cap, pos |-> l.pos, start |-> l.start,
     width |-> l.width, rpos |-> l.rpos, eof |-> l.eof,
     src |-> l.src, rdn |-> l.rdn,
     out |-> <<>>, r |-> 0, ok |-> TRUE, ops |-> <<>>, panic |-> FALSE]

\* the Lexer NewLexer builds: every field zero, buf nil
NewLexer ==
    [buf |-> <<>>, cap |-> 0, pos |-> 0, start |-> 0, width |-> 0, rpos |-> 0,
     eof |-> FALSE, src |-> 0, rdn |-> 0]

\* l.items <- item: the driver blocks here until the item is taken
Send(m, item) ==
    IF m.panic THEN m ELSE [m EXCEPT !.out = Append(@, [item |-> item, at |-> LexerOf(m)])]

\* the run-time panic of a slice expression out of range: nothing the
\* program does after it counts, and the loops it was in end
Panic(m) == [m EXCEPT !.panic = TRUE, !.r = EOF, !.ok = FALSE]

\* the items sent between the machines m and m1 of a call
Sent(m, m1) == [k \in 1..(Len(m1.out) - Len(m.out)) |-> m1.out[Len(m.out) + k].item]

\* the method op, called with the argument arg at the machine m, returns at
\* the machine m1 (r and ok are its result); for Read, n and err are what it
\* returned
Called(op, arg, m, m1, n, err) ==
    [m1 EXCEPT !.ops = Append(@, [op |-> op, arg |-> arg,
                                  pre |-> LexerOf(m), post |-> LexerOf(m1),
                                  r |-> m1.r, ok |-> m1.ok, n |-> n, err |-> err,
                                  items |-> Sent(m, m1), panic |-> m1.panic])]

Op(op, m, m1) == Called(op, <<>>, m, m1, 0, "")

OpOn(op, arg, m, m1) == Called(op, arg, m, m1, 0, "")

(***************************************************************************)
(* The input source.  e.input is the byte stream.  A Read fills l.next     *)
(* (Buflen bytes) as far as bytes remain and returns a nil error, and at   *)
(* the end of the stream (0, io.EOF), but for what io.Reader also allows:  *)
(*   e.fault  one Read call, number e.fault.at, returns e.fault.n bytes    *)
(*            (0 or 1, as far as they remain) with e.fault.err, "nil" or   *)
(*            an error "err" other than io.EOF;                            *)
(*   e.last   the error returned with the last bytes of the stream: "nil", *)
(*            or "EOF" for a reader that reports the end with the data.    *)
(***************************************************************************)
ReadLen(e, m) == Min(e.Buflen, Len(e.input) - m.src)

ReadErr(e, m, n) ==
    IF Len(e.input) - m.src = 0 THEN "EOF"
    ELSE IF n = Len(e.input) - m.src THEN e.last
    ELSE "nil"

ReadResult(e, m, n, err) ==
    [n |-> n, err |-> err, data |-> Slice(e.input, m.src, m.src + n)]

Read(e, m) ==
    IF e.fault.at = m.rdn + 1
    THEN ReadResult(e, m, Min(e.fault.n, ReadLen(e, m)),
                    IF e.fault.err = "nil" /\ Len(e.input) - m.src = 0 /\ e.fault.n > 0
                    THEN "EOF" ELSE e.fault.err)
    ELSE ReadResult(e, m, ReadLen(e, m), ReadErr(e, m, ReadLen(e, m)))

(***************************************************************************)
(* append(l.buf, l.next[0:n]...): the capacity of a grown slice is the     *)
(* implementation's choice.  e.grow names it: "gc" is growslice of the gc  *)
(* toolchain for these sizes (double, or the needed length if larger,      *)
(* rounded up to the allocator's size class), "exact" the least capacity   *)
(* the language allows.                                                    *)
(***************************************************************************)
RoundUpSize(n) ==
    IF n <= 8 THEN 8 ELSE IF n <= 128 THEN ((n + 15) \div 16) * 16 ELSE n

GrowCap(e, cap, need) ==
    IF need <= cap THEN cap
    ELSE IF e.grow = "exact" THEN need
    ELSE RoundUpSize(Max(need, 2 * cap))

AppendBuf(e, m, data) ==
    [m EXCEPT !.buf = @ \o data, !.cap = GrowCap(e, @, Len(m.buf) + Len(data))]

(***************************************************************************)
(* The cursor.  An operator that continues a method from an intermediate   *)
(* machine takes that machine as its parameter.                            *)
(***************************************************************************)
Errorf(m, msg, arg) == Send(m, ErrItem(m.rpos, msg, arg))

\* the reader has handed out rd.n bytes (Read calls are counted up to the
\* faulty one)
ReaderAfter(e, m, rd) ==
    [m EXCEPT !.src = @ + rd.n, !.rdn = IF @ < e.fault.at THEN @ + 1 ELSE @]

\* n, err := l.r.Read(l.next) and what Next does with the result rd
\* a variant of Refilled: the bytes of a Read that failed are appended too
RefilledWithData(e, m, rd) ==
    IF rd.err = "EOF" THEN ReaderAfter(e, m, rd)
    ELSE AppendBuf(e, IF rd.err = "nil" THEN ReaderAfter(e, m, rd)
                      ELSE Errorf(ReaderAfter(e, m, rd), "%s: %v", 0),
                   rd.data)

Refilled(e, m, rd) ==
    IF rd.err = "nil" THEN AppendBuf(e, ReaderAfter(e, m, rd), rd.data)
    ELSE IF rd.err # "EOF" THEN Errorf(ReaderAfter(e, m, rd), "%s: %v", 0)
    ELSE ReaderAfter(e, m, rd)

Refill(e, m, rd) == Called("Read", <<>>, m, Refilled(e, m, rd), rd.n, rd.err)

Fill(e, m) ==
    IF Len(m.buf) - m.pos < UTFMax THEN Refill(e, m, Read(e, m)) ELSE m

Decoded(m, d) ==
    [m EXCEPT !.width = d.w, !.pos = @ + d.w, !.rpos = @ + d.w, !.r = d.r]

\* the rest of Next once the buffer has been refilled
Advance(m) ==
    IF m.pos = Len(m.buf)
    THEN [m EXCEPT !.eof = TRUE, !.r = EOF]
    ELSE IF m.pos < 0 \/ m.pos > Len(m.buf) THEN Panic(m)
    ELSE Decoded(m, DecodeRune(Slice(m.buf, m.pos, Len(m.buf))))

Next(e, m) == Op("Next", m, Advance(Fill(e, m)))

BackedUp(m) ==
    IF ~m.eof THEN [m EXCEPT !.pos = @ - m.width, !.rpos = @ - m.width] ELSE m

Backup(m) == Op("Backup", m, BackedUp(m))

\* Peek returns the rune its Next returned
PeekBackup(m1) == [Backup(m1) EXCEPT !.r = m1.r]

Peek(e, m) == Op("Peek", m, PeekBackup(Next(e, m)))

Size(m) == m.pos - m.start

Bytes(m) == Slice(m.buf, m.start, m.pos)

(***************************************************************************)
(* The scan primitives (the methods Accept, Except, AcceptRun, ExceptRun   *)
(* of Lexer).                                                              *)
(***************************************************************************)
AcceptTest(m1, valid) ==
    IF IndexRune(valid, m1.r) >= 0 THEN [m1 EXCEPT !.ok = TRUE]
    ELSE [Backup(m1) EXCEPT !.ok = FALSE]

LexAccept(e, m, valid) == OpOn("Accept", valid, m, AcceptTest(Next(e, m), valid))

ExceptTest(m1, invalid) ==
    IF IndexRune(invalid, m1.r) < 0 THEN [m1 EXCEPT !.ok = TRUE]
    ELSE [Backup(m1) EXCEPT !.ok = FALSE]

LexExcept(e, m, invalid) == OpOn("Except", invalid, m, ExceptTest(Next(e, m), invalid))

\* the loop of AcceptRun: up to and including the Next that ends the run
RECURSIVE AcceptRunLoop(_, _, _)
AcceptRunTest(e, m1, valid) ==
    IF m1.r = EOF THEN m1
    ELSE IF IndexRune(valid, m1.r) < 0 THEN m1
    ELSE AcceptRunLoop(e, m1, valid)

AcceptRunLoop(e, m, valid) == AcceptRunTest(e, Next(e, m), valid)

\* return l.pos > l.start
RunResult(m1) == [m1 EXCEPT !.ok = m1.pos > m1.start]

LexAcceptRun(e, m, valid) ==
    OpOn("AcceptRun", valid, m, RunResult(Backup(AcceptRunLoop(e, m, valid))))

RECURSIVE ExceptRunLoop(_, _, _)
ExceptRunTest(e, m1, invalid) ==
    IF m1.r = EOF THEN m1
    ELSE IF IndexRune(invalid, m1.r) >= 0 THEN m1
    ELSE ExceptRunLoop(e, m1, invalid)

ExceptRunLoop(e, m, invalid) == ExceptRunTest(e, Next(e, m), invalid)

LexExceptRun(e, m, invalid) ==
    OpOn("ExceptRun", invalid, m, RunResult(Backup(ExceptRunLoop(e, m, invalid))))

(***************************************************************************)
(* The token emitter.                                                      *)
(***************************************************************************)
\* a variant of Skip: where it does not compact, l.start is left behind
SkipLeavesStart(m) ==
    IF m.cap \div CompactDiv >= m.cap - m.pos
    THEN [m EXCEPT !.buf = Slice(m.buf, m.pos, Len(m.buf)), !.start = 0, !.pos = 0]
    ELSE m

\* a variant of Skip: where it compacts, l.pos is not reset
SkipKeepsPos(m) ==
    IF m.cap \div CompactDiv >= m.cap - m.pos
    THEN [m EXCEPT !.buf = Slice(m.buf, m.pos, Len(m.buf)), !.start = 0]
    ELSE [m EXCEPT !.start = m.pos]

\* a variant of Skip: where it compacts, the first unread byte is lost
SkipDropsByte(m) ==
    IF m.cap \div CompactDiv >= m.cap - m.pos
    THEN [m EXCEPT !.buf = Slice(m.buf, m.pos + 1, Len(m.buf)), !.start = 0, !.pos = 0]
    ELSE [m EXCEPT !.start = m.pos]

Skipped(m) ==
    LET n == m.cap
        r == n - m.pos
    IN  IF n \div CompactDiv >= r
        THEN [m EXCEPT !.buf = Slice(m.buf, m.pos, Len(m.buf)), !.start = 0, !.pos = 0]
        ELSE [m EXCEPT !.start = m.pos]

Skip(m) == IF m.panic THEN m ELSE Op("Skip", m, Skipped(m))

\* l.buf[l.start:l.pos] panics when start < 0 or start > pos
Emitted(m, t) ==
    IF m.panic \/ m.start < 0 \/ m.start > m.pos THEN Panic(m)
    ELSE Skip(Send(m, Item(t, m.rpos - (m.pos - m.start), Slice(m.buf, m.start, m.pos))))

Emit(m, t) == OpOn("Emit", <<t>>, m, Emitted(m, t))

\* a variant of the tail: the token is sent whatever emit says
EmitAlways(m, t, emit) == [Emit(m, t) EXCEPT !.ok = TRUE]

\* the tail every built-in field step ends a success with
EmitOrSkip(m, t, emit) ==
    [(IF emit THEN Emit(m, t) ELSE Skip(m)) EXCEPT !.ok = TRUE]

(***************************************************************************)
(* The recovery routine SkipPast(s).                                       *)
(***************************************************************************)
SkipIf(m1) == IF m1.ok THEN Skip(m1) ELSE m1

SkipPast(e, m, s) ==
    OpOn("SkipPast", s, m, SkipIf(LexAcceptRun(e, SkipIf(LexExceptRun(e, m, s)), s)))

(***************************************************************************)
(* The built-in field steps (StateFn).  b is the step's description: fn,   *)
(* the name of the constructor, set, its character set, and needed.        *)
(***************************************************************************)
\* l.Errorf(msg, set, l.Peek()), with p the machine after the Peek
ErrorGot(p, msg) == Errorf(p, msg, p.r)

\* a variant of StepResult: the error is sent whatever needed is
StepResultAlwaysError(e, m1, needed, t, emit, msg) ==
    IF m1.ok THEN EmitOrSkip(m1, t, emit)
    ELSE [ErrorGot(Peek(e, m1), msg) EXCEPT !.ok = FALSE]

\* a variant of StepResult: the failure backs up once more, after the Peek
StepResultBacksUp(e, m1, needed, t, emit, msg) ==
    IF m1.ok THEN EmitOrSkip(m1, t, emit)
    ELSE [Backup(IF needed THEN ErrorGot(Peek(e, m1), msg) ELSE m1) EXCEPT !.ok = FALSE]

\* what Accept, AcceptRun, Except and ExceptRun do with the primitive's result
StepResult(e, m1, needed, t, emit, msg) ==
    IF m1.ok THEN EmitOrSkip(m1, t, emit)
    ELSE [(IF needed THEN ErrorGot(Peek(e, m1), msg) ELSE m1) EXCEPT !.ok = FALSE]

AcceptFn(e, m, valid, needed, t, emit) ==
    StepResult(e, LexAccept(e, m, valid), needed, t, emit,
               "expected character from the set %q, got %q")

AcceptRunFn(e, m, valid, needed, t, emit) ==
    StepResult(e, LexAcceptRun(e, m, valid), needed, t, emit,
               "expected a run of characters from the set %q, got %q")

ExceptFn(e, m, invalid, needed, t, emit) ==
    StepResult(e, LexExcept(e, m, invalid), needed, t, emit,
               "expected a character outside the set %q, got %q")

ExceptRunFn(e, m, invalid, needed, t, emit) ==
    StepResult(e, LexExceptRun(e, m, invalid), needed, t, emit,
               "expected a character outside the set %q, got %q")

\* the loop of Quote, after the opening quote
RECURSIVE QuoteLoop(_, _, _, _)
QuoteSwitch(e, m1, t, emit) ==
    IF m1.r = 92 THEN QuoteLoop(e, Next(e, m1), t, emit)
    ELSE IF m1.r = 10
    THEN [Backup(Errorf(m1, "unterminated quote", 0)) EXCEPT !.ok = FALSE]
    ELSE IF m1.r = EOF
    THEN [Errorf(m1, "unterminated quote", 0) EXCEPT !.ok = FALSE]
    ELSE IF m1.r = 34 THEN EmitOrSkip(m1, t, emit)
    ELSE QuoteLoop(e, m1, t, emit)

QuoteLoop(e, m, t, emit) == QuoteSwitch(e, Next(e, m), t, emit)

\* a variant of the opening test of Quote: Backup precedes Errorf
QuoteOpenBackupFirst(e, m1, t, emit) ==
    IF m1.r # 34
    THEN [Errorf(Backup(m1), "expected '\"', got %q", m1.r) EXCEPT !.ok = FALSE]
    ELSE QuoteLoop(e, m1, t, emit)

QuoteOpen(e, m1, t, emit) ==
    IF m1.r # 34
    THEN [Backup(Errorf(m1, "expected '\"', got %q", m1.r)) EXCEPT !.ok = FALSE]
    ELSE QuoteLoop(e, m1, t, emit)

Quote(e, m, t, emit) == QuoteOpen(e, Next(e, m), t, emit)

\* Digits, Letters and Spaces differ in the class and in the message
IsClass(class, r) ==
    CASE class = "Digits" -> IsDigit(r)
      [] class = "Letters" -> IsLetter(r)
      [] class = "Spaces" -> IsSpace(r)

\* after l.Backup(): if l.pos > l.start ... else Errorf(..., r)
ClassEnd(m2, r, class, t, emit) ==
    IF m2.pos > m2.start THEN EmitOrSkip(m2, t, emit)
    ELSE [Errorf(m2, "expected " \o class \o ", got %q", r) EXCEPT !.ok = FALSE]

RECURSIVE ClassRun(_, _, _, _, _)
ClassTest(e, m1, class, t, emit) ==
    IF ~IsClass(class, m1.r) THEN ClassEnd(Backup(m1), m1.r, class, t, emit)
    ELSE ClassRun(e, m1, class, t, emit)

ClassRun(e, m, class, t, emit) == ClassTest(e, Next(e, m), class, t, emit)

Digits(e, m, t, emit) == ClassRun(e, m, "Digits", t, emit)

Letters(e, m, t, emit) == ClassRun(e, m, "Letters", t, emit)

Spaces(e, m, t, emit) == ClassRun(e, m, "Spaces", t, emit)

\* "+-", "0123456789", "0123456789abcdefABCDEF": the sets of scanNumber
SignSet == <<43, 45>>

DecDigits == <<48, 49, 50, 51, 52, 53, 54, 55, 56, 57>>

HexDigits == DecDigits \o <<97, 98, 99, 100, 101, 102, 65, 66, 67, 68, 69, 70>>

\* scanNumber, from the end backwards: each operator is the rest of the
\* function after the call whose result is its machine parameter
\* if isAlphaNumeric(l.Peek()) { l.Next(); return false }; return true
scanEnd(e, p) ==
    IF isAlphaNumeric(p.r) THEN [Next(e, p) EXCEPT !.ok = FALSE]
    ELSE [p EXCEPT !.ok = TRUE]

\* after l.Accept("eE"): the exponent, then l.Accept("i") and the Peek
scanExp(e, m7) ==
    scanEnd(e, Peek(e, LexAccept(e,
        IF m7.ok THEN LexAcceptRun(e, LexAccept(e, m7, SignSet), DecDigits) ELSE m7,
        <<105>>)))

\* after l.Accept("."): the fraction, then l.Accept("eE")
scanFrac(e, m5, digits) ==
    scanExp(e, LexAccept(e, IF m5.ok THEN LexAcceptRun(e, m5, digits) ELSE m5, <<101, 69>>))

\* l.AcceptRun(digits), then l.Accept(".")
scanDigits(e, m3, digits) ==
    scanFrac(e, LexAccept(e, LexAcceptRun(e, m3, digits), <<46>>), digits)

\* after l.Accept("0") && l.Accept("xX")
scanHex(e, m3) == scanDigits(e, m3, IF m3.ok THEN HexDigits ELSE DecDigits)

\* after l.Accept("0")
scanZero(e, m2) == scanHex(e, IF m2.ok THEN LexAccept(e, m2, <<120, 88>>) ELSE m2)

scanNumber(e, m) == scanZero(e, LexAccept(e, LexAccept(e, m, SignSet), <<48>>))

BadNumber(m) == [Errorf(m, "bad number syntax: %q", 0) EXCEPT !.ok = FALSE]

\* the complex part: if !l.scanNumber() || l.buf[l.pos-1] != 'i'
NumberImag(m2, t, emit) ==
    IF ~m2.ok \/ m2.buf[m2.pos] # 105 THEN BadNumber(m2)
    ELSE EmitOrSkip(m2, t, emit)

\* sign := l.Peek()
NumberSign(e, p, t, emit) ==
    IF p.r = 43 \/ p.r = 45 THEN NumberImag(scanNumber(e, p), t, emit)
    ELSE EmitOrSkip(p, t, emit)

NumberFirst(e, m1, t, emit) ==
    IF ~m1.ok THEN BadNumber(m1) ELSE NumberSign(e, Peek(e, m1), t, emit)

Number(e, m, t, emit) == NumberFirst(e, scanNumber(e, m), t, emit)

(***************************************************************************)
(* numericTz of the example program: a timezone field [+-]HHMM or          *)
(* [+-]HH:MM.  Each failure is l.Errorf(msg, l.Peek()); l.Backup().        *)
(***************************************************************************)
tzFail(e, m1, msg) == [Backup(ErrorGot(Peek(e, m1), msg)) EXCEPT !.ok = FALSE]

\* !l.Accept(digits) || !l.Accept(digits), a the machine after the first
tzSecond(e, a) == IF a.ok THEN LexAccept(e, a, DecDigits) ELSE a

tzTwoDigits(e, m) == tzSecond(e, LexAccept(e, m, DecDigits))

\* if ':' == l.Peek() { l.Next() }
tzColon(e, p) == IF p.r = 58 THEN Next(e, p) ELSE p

tzMinute(e, m5, t, emit) ==
    IF ~m5.ok THEN tzFail(e, m5, "expected 2-digit minute, got %q")
    ELSE EmitOrSkip(m5, t, emit)

tzHour(e, m3, t, emit) ==
    IF ~m3.ok THEN tzFail(e, m3, "expected 2-digit hour, got %q")
    ELSE tzMinute(e, tzTwoDigits(e, tzColon(e, Peek(e, m3))), t, emit)

tzSign(e, m1, t, emit) ==
    IF ~m1.ok THEN tzFail(e, m1, "expected plus or minus sign, got %q")
    ELSE tzHour(e, tzTwoDigits(e, m1), t, emit)

numericTz(e, m, t, emit) == tzSign(e, LexAccept(e, m, SignSet), t, emit)

\* the field step of the binding b
StepFn(e, m, b) ==
    CASE b.StateFn.fn = "Accept" ->
            AcceptFn(e, m, b.StateFn.set, b.StateFn.needed, b.ItemType, b.Emit)
      [] b.StateFn.fn = "AcceptRun" ->
            AcceptRunFn(e, m, b.StateFn.set, b.StateFn.needed, b.ItemType, b.Emit)
      [] b.StateFn.fn = "Except" ->
            ExceptFn(e, m, b.StateFn.set, b.StateFn.needed, b.ItemType, b.Emit)
      [] b.StateFn.fn = "ExceptRun" ->
            ExceptRunFn(e, m, b.StateFn.set, b.StateFn.needed, b.ItemType, b.Emit)
      [] b.StateFn.fn = "Quote" -> Quote(e, m, b.ItemType, b.Emit)
      [] b.StateFn.fn = "Digits" -> Digits(e, m, b.ItemType, b.Emit)
      [] b.StateFn.fn = "Letters" -> Letters(e, m, b.ItemType, b.Emit)
      [] b.StateFn.fn = "Spaces" -> Spaces(e, m, b.ItemType, b.Emit)
      [] b.StateFn.fn = "Number" -> Number(e, m, b.ItemType, b.Emit)
      [] b.StateFn.fn = "numericTz" -> numericTz(e, m, b.ItemType, b.Emit)

\* state.StateFn(l, state.ItemType, state.Emit) for the binding b
StateFn(e, m, b) == OpOn("StateFn", b, m, StepFn(e, m, b))

\* a variant of ErrorFn: the recovery routine closes the abandoned record
\* with an ItemEOR
ErrorFnEOR(e, m) == Emit(SkipPast(e, m, e.rec.ErrorFn.set), ItemEOR)

\* l.rec.ErrorFn(l): the recovery routines of the model are SkipPast(s)
ErrorFn(e, m) == SkipPast(e, m, e.rec.ErrorFn.set)

(***************************************************************************)
(* The record driver run().  Its position is pc, with fi the index of the  *)
(* field step (1 .. len(States); the code counts from 0):                  *)
(*   "state"  about to call States[fi].StateFn                             *)
(*   "error"  the step returned false: about to call ErrorFn and break     *)
(*   "eor"    the step returned true: about to test i == eor || l.eof      *)
(*   "peek"   after the loop over the steps: about to test Peek() == EOF   *)
(*   "close"  after Emit(ItemEOF) and break: the deferred close(l.items)   *)
(*   "done"   the task has ended                                           *)
(* RunCall is the machine after the calls run makes at pc, RunNext where   *)
(* run goes on from there.                                                 *)
(***************************************************************************)
Eor(e) == Len(e.rec.States)

\* if l.Peek() == EOF { l.Emit(ItemEOF); break }
PeekEOF(q) == IF q.r = EOF THEN Emit(q, ItemEOF) ELSE q

RunCall(e, p, i, l) ==
    CASE p = "state" -> StateFn(e, Machine(l), e.rec.States[i])
      [] p = "error" -> ErrorFn(e, Machine(l))
      [] p = "eor" -> IF i = Eor(e) \/ l.eof THEN Emit(Machine(l), ItemEOR) ELSE Machine(l)
      [] p = "peek" -> PeekEOF(Peek(e, Machine(l)))
      [] OTHER -> Machine(l)

\* a variant of RunNext: the break after the recovery routine is missing, so
\* the loop over the steps goes on with the next field
RunNextNoBreak(e, p, i, m) ==
    CASE p = "state" -> [pc |-> IF m.ok THEN "eor" ELSE "error", fi |-> i]
      [] p = "error" -> IF i < Eor(e) THEN [pc |-> "state", fi |-> i + 1]
                        ELSE [pc |-> "peek", fi |-> i]
      [] p = "eor" -> IF i < Eor(e) THEN [pc |-> "state", fi |-> i + 1]
                      ELSE [pc |-> "peek", fi |-> i]
      [] p = "peek" -> IF m.r = EOF THEN [pc |-> "close", fi |-> i]
                       ELSE [pc |-> "state", fi |-> 1]
      [] OTHER -> [pc |-> "done", fi |-> i]

RunNext(e, p, i, m) ==
    CASE m.panic -> [pc |-> "panic", fi |-> i]
      [] p = "state" -> [pc |-> IF m.ok THEN "eor" ELSE "error", fi |-> i]
      [] p = "error" -> [pc |-> "peek", fi |-> i]
      [] p = "eor" -> IF i < Eor(e) THEN [pc |-> "state", fi |-> i + 1]
                      ELSE [pc |-> "peek", fi |-> i]
      [] p = "peek" -> IF m.r = EOF THEN [pc |-> "close", fi |-> i]
                       ELSE [pc |-> "state", fi |-> 1]
      [] OTHER -> [pc |-> "done", fi |-> i]

(***************************************************************************)
(* run() taken from position p of field i with the Lexer l to its return,  *)
(* without the channel: the items it sends, in order, cut at MaxLog.       *)
(***************************************************************************)
ItemsOf(out) == [k \in 1..Len(out) |-> out[k].item]

FirstItems(s) == SubSeq(s, 1, Min(Len(s), MaxLog))

RECURSIVE RunFrom(_, _, _, _)
RunOn(e, p, i, m, acc) ==
    RunFrom(e, RunNext(e, p, i, m), LexerOf(m), acc \o ItemsOf(m.out))

RunFrom(e, n, l, acc) ==
    IF n.pc \in {"close", "done", "panic"} \/ Len(acc) >= MaxLog THEN FirstItems(acc)
    ELSE RunOn(e, n.pc, n.fi, RunCall(e, n.pc, n.fi, l), acc)

RunItems(e) == RunFrom(e, [pc |-> "state", fi |-> 1], NewLexer, <<>>)

(***************************************************************************)
(* NextItem: what it stores in lastPos and returns for the item received.  *)
(***************************************************************************)
\* a variant of NextItem: an error token is not returned as received
NextItemNoError(item) ==
    [lastPos |-> item.Pos, ret |-> IF item.Type = ItemError THEN ZeroItem ELSE item]

\* a variant of NextItem: l.lastPos is not set
NextItemNoLastPos(item) == [lastPos |-> 0, ret |-> item]

NextItem(item) == [lastPos |-> item.Pos, ret |-> item]

(***************************************************************************)
(* State.                                                                  *)
(*   env      the record, the input and the behaviour of the input source  *)
(*            and of append: fixed when the lexer is constructed           *)
(*   lex      the Lexer fields (and the reader's position)                 *)
(*   pc, fi   where run() is; pc = "send" while a call of run is at a send; *)
(*            before run() there is, pc = "new" until NewLexer has         *)
(*            returned, and "failed" once it has returned an error;        *)
(*            "panic" once run() has panicked                              *)
(*   cont     the rest of a call that is at a send: the sends still to     *)
(*            make (todo), the Lexer when the call returns (fin), where    *)
(*            run goes on (pc, fi) and the event of the return (ret)       *)
(*   sending  the item the driver is blocked sending, as a sequence of     *)
(*            length 0 or 1                                                *)
(*   chanq    the items in the channel's buffer (none with ChanCap = 0)    *)
(*   closed   close(l.items) has run                                       *)
(*   cpc      the consumer: "idle", or "recv" inside NextItem              *)
(*   lastPos  l.lastPos                                                    *)
(*   got      what the last NextItem returned, length 0 or 1               *)
(* and, kept for the properties only, up to MaxLog entries each:           *)
(*   trace    the events of run() in program order: a send begun ("emit"), *)
(*            a field step returned ("state", with its index and result),  *)
(*            the recovery routine returned ("error")                      *)
(*   emitLog  the items the driver began to send, in program order         *)
(*   sentLog  the items whose send completed                               *)
(*   recvLog  the items NextItem received from the open channel            *)
(* and                                                                     *)
(*   starts   the Lexer (with the reader's position) at each call of field *)
(*            1 so far, that is at the start of each pass over the record  *)
(*   ops      the calls of Read, Next, Backup and Peek in the call run()   *)
(*            made last                                                    *)
(***************************************************************************)
VARIABLES env, lex, pc, fi, cont, sending, chanq, closed, cpc, lastPos, got,
          trace, emitLog, sentLog, recvLog, starts, ops

vars == <<env, lex, pc, fi, cont, sending, chanq, closed, cpc, lastPos, got,
          trace, emitLog, sentLog, recvLog, starts, ops>>

Log(log, x) == IF Len(log) < MaxLog THEN Append(log, x) ELSE log

EmitEv(item) == [ev |-> "emit", i |-> 0, ok |-> TRUE, item |-> item]

StateEv(i, ok) == [ev |-> "state", i |-> i, ok |-> ok, item |-> ZeroItem]

ErrorEv == [ev |-> "error", i |-> 0, ok |-> TRUE, item |-> ZeroItem]

\* the event of the return of the call run() makes at position p
Returned(p, i, m) ==
    IF p = "state" THEN <<StateEv(i, m.ok)>>
    ELSE IF p = "error" THEN <<ErrorEv>>
    ELSE <<>>

NoCont == [todo |-> <<>>, fin |-> NewLexer, pc |-> "done", fi |-> 0, ret |-> <<>>]

\* The driver goes on with the sends outs of the call it is in, which ends
\* with the Lexer fin, run at n and the event ret: up to the next send, in
\* which it blocks unless the channel's buffer has room, or to the end of
\* the call.
Proceed(outs, fin, n, ret) ==
    IF outs = <<>>
    THEN /\ lex' = fin
         /\ pc' = n.pc
         /\ fi' = n.fi
         /\ cont' = NoCont
         /\ trace' = IF ret = <<>> THEN trace ELSE Log(trace, ret[1])
         /\ UNCHANGED <<sending, chanq, emitLog, sentLog>>
    ELSE /\ lex' = Head(outs).at
         /\ pc' = "send"
         /\ fi' = fi
         /\ cont' = [todo |-> Tail(outs), fin |-> fin, pc |-> n.pc, fi |-> n.fi, ret |-> ret]
         /\ trace' = Log(trace, EmitEv(Head(outs).item))
         /\ emitLog' = Log(emitLog, Head(outs).item)
         /\ IF Len(chanq) < ChanCap
            THEN /\ chanq' = Append(chanq, Head(outs).item)
                 /\ sentLog' = Log(sentLog, Head(outs).item)
                 /\ UNCHANGED sending
            ELSE /\ sending' = <<Head(outs).item>>
                 /\ UNCHANGED <<chanq, sentLog>>

\* run() has made the call of position p, which left the machine m
Ran(p, m) ==
    /\ Proceed(m.out, LexerOf(m), RunNext(env, p, fi, m), Returned(p, fi, m))
    /\ ops' = m.ops

\* a variant of NewLexerErr: Buflen is not looked at
NewLexerErrAnyBuflen(e) ==
    IF Len(e.rec.States) = 0 THEN "rec.states must not be empty."
    ELSE IF e.rec.ErrorFn.fn = "nil" THEN "rec.ErrorFn must not be nil"
    ELSE "nil"

\* the error NewLexer returns for the record and Buflen of e, "nil" for none
NewLexerErr(e) ==
    IF Len(e.rec.States) = 0 THEN "rec.states must not be empty."
    ELSE IF e.Buflen < 1 THEN "rec.Buflen must be > 0: %d"
    ELSE IF e.rec.ErrorFn.fn = "nil" THEN "rec.ErrorFn must not be nil"
    ELSE "nil"

\* NewLexer returns: with an error and no lexer (pc = "failed"), or with the
\* lexer, go l.run() done
NewLexerCall ==
    /\ pc = "new"
    /\ pc' = IF NewLexerErr(env) = "nil" THEN "state" ELSE "failed"
    /\ UNCHANGED <<env, lex, fi, cont, sending, chanq, closed, cpc, lastPos, got,
                   trace, emitLog, sentLog, recvLog, starts, ops>>

\* state.StateFn(l, state.ItemType, state.Emit)
RunState ==
    /\ pc = "state"
    /\ Ran("state", RunCall(env, "state", fi, lex))
    /\ starts' = IF fi = 1 THEN starts \cup {lex} ELSE starts
    /\ UNCHANGED <<env, closed, cpc, lastPos, got, recvLog>>

\* l.rec.ErrorFn(l); break
RunError ==
    /\ pc = "error"
    /\ Ran("error", RunCall(env, "error", fi, lex))
    /\ UNCHANGED <<env, closed, cpc, lastPos, got, recvLog, starts>>

\* if i == eor || l.eof { l.Emit(ItemEOR) }
RunEOR ==
    /\ pc = "eor"
    /\ Ran("eor", RunCall(env, "eor", fi, lex))
    /\ UNCHANGED <<env, closed, cpc, lastPos, got, recvLog, starts>>

\* if l.Peek() == EOF { l.Emit(ItemEOF); break }
RunPeek ==
    /\ pc = "peek"
    /\ Ran("peek", RunCall(env, "peek", fi, lex))
    /\ UNCHANGED <<env, closed, cpc, lastPos, got, recvLog, starts>>

\* a variant of the end of run(): the channel is left open
RunCloseLeavesOpen ==
    /\ pc = "close"
    /\ pc' = "done"
    /\ UNCHANGED <<env, lex, fi, cont, sending, chanq, closed, cpc, lastPos, got,
                   trace, emitLog, sentLog, recvLog, starts, ops>>

\* a variant of the end of run(): it clears l.lastPos as it returns
RunCloseClearsLastPos ==
    /\ pc = "close"
    /\ pc' = "done"
    /\ closed' = TRUE
    /\ lastPos' = 0
    /\ UNCHANGED <<env, lex, fi, cont, sending, chanq, cpc, got,
                   trace, emitLog, sentLog, recvLog, starts, ops>>

\* the deferred close(l.items) as run returns
RunClose ==
    /\ pc = "close"
    /\ pc' = "done"
    /\ closed' = TRUE
    /\ UNCHANGED <<env, lex, fi, cont, sending, chanq, cpc, lastPos, got,
                   trace, emitLog, sentLog, recvLog, starts, ops>>

\* a variant of Resume: the driver goes on although the item it is sending
\* has not been received
ResumeUnreceived ==
    /\ pc = "send"
    /\ Proceed(cont.todo, cont.fin, cont, cont.ret)
    /\ UNCHANGED <<env, closed, cpc, lastPos, got, recvLog, starts, ops>>

\* the send the driver was in has completed: the call goes on
Resume ==
    /\ pc = "send"
    /\ sending = <<>>
    /\ Proceed(cont.todo, cont.fin, cont, cont.ret)
    /\ UNCHANGED <<env, closed, cpc, lastPos, got, recvLog, starts, ops>>

\* l.lastPos = item.Pos; return item
Received(res) ==
    /\ lastPos' = res.lastPos
    /\ got' = <<res.ret>>

\* LastPos() returns l.lastPos
LastPos == lastPos

\* the consumer calls NextItem and waits in item := <-l.items; it has no
\* lexer to call before NewLexer returns one, and the program has stopped
\* when run() has panicked
NextItemCall ==
    /\ pc \notin {"new", "failed", "panic"}
    /\ cpc = "idle"
    /\ cpc' = "recv"
    /\ UNCHANGED <<env, lex, pc, fi, cont, sending, chanq, closed, lastPos, got,
                   trace, emitLog, sentLog, recvLog, starts, ops>>

\* the receive of NextItem takes an item: from the buffer, into which a
\* blocked sender's item then moves, or from the blocked sender itself
NextItemRecv ==
    /\ cpc = "recv"
    /\ chanq # <<>> \/ sending # <<>>
    /\ Received(NextItem(IF chanq # <<>> THEN Head(chanq) ELSE sending[1]))
    /\ recvLog' = Log(recvLog, got'[1])
    /\ chanq' = IF chanq # <<>> THEN Tail(chanq) \o sending ELSE chanq
    /\ sentLog' = IF sending # <<>> THEN Log(sentLog, sending[1]) ELSE sentLog
    /\ sending' = <<>>
    /\ cpc' = "idle"
    /\ UNCHANGED <<env, lex, pc, fi, cont, closed, trace, emitLog, starts, ops>>

\* the receive of NextItem on the closed, drained channel yields the zero Item
NextItemClosed ==
    /\ cpc = "recv"
    /\ closed /\ chanq = <<>> /\ sending = <<>>
    /\ Received(NextItem(ZeroItem))
    /\ cpc' = "idle"
    /\ UNCHANGED <<env, lex, pc, fi, cont, sending, chanq, closed,
                   trace, emitLog, sentLog, recvLog, starts, ops>>

Driver == RunState \/ RunError \/ RunEOR \/ RunPeek \/ RunClose \/ Resume

Consumer == NextItemCall \/ NextItemRecv \/ NextItemClosed

Step == NewLexerCall \/ Driver \/ Consumer

(***************************************************************************)
(* The records, inputs and input sources the lexer is constructed with.    *)
(***************************************************************************)
Binding(t, f, emit) == [ItemType |-> t, StateFn |-> f, Emit |-> emit]

Fn(name, set, needed) == [fn |-> name, set |-> set, needed |-> needed]

\* the caller's item types follow ItemEOF (ItemEOF + 1 + iota)
ItemA == ItemEOF + 1

ItemB == ItemEOF + 2

Record(states) == [States |-> states, ErrorFn |-> [fn |-> "SkipPast", set |-> <<10>>]]

\* aRecord of lex_test.go: one step AcceptRun("a", true), emitted
aRecord == Record(<<Binding(ItemA, Fn("AcceptRun", <<97>>, TRUE), TRUE)>>)

\* lines of a's: the run is emitted, the newline is skipped
lineRecord ==
    Record(<<Binding(ItemA, Fn("AcceptRun", <<97>>, TRUE), TRUE),
             Binding(ItemB, Fn("Accept", <<10>>, TRUE), FALSE)>>)

\* one character that is no newline, then the rest of the line
exceptRecord ==
    Record(<<Binding(ItemA, Fn("Except", <<10>>, TRUE), TRUE),
             Binding(ItemB, Fn("ExceptRun", <<10>>, FALSE), TRUE)>>)

lettersRecord == Record(<<Binding(ItemA, Fn("Letters", <<>>, TRUE), TRUE)>>)

numberRecord == Record(<<Binding(ItemA, Fn("Number", <<>>, TRUE), TRUE)>>)

quoteRecord == Record(<<Binding(ItemA, Fn("Quote", <<>>, TRUE), TRUE)>>)

\* digits, then spaces that are skipped
classRecord ==
    Record(<<Binding(ItemA, Fn("Digits", <<>>, TRUE), TRUE),
             Binding(ItemB, Fn("Spaces", <<>>, TRUE), FALSE)>>)

\* the timezone field of the example program
tzRecord == Record(<<Binding(ItemA, Fn("numericTz", <<>>, TRUE), TRUE)>>)

Records ==
    {aRecord, lineRecord, exceptRecord, lettersRecord, numberRecord, quoteRecord,
     classRecord, tzRecord}

\* the records NewLexer refuses: no States, and a nil ErrorFn
emptyRecord == Record(<<>>)

nilErrorFnRecord == [States |-> aRecord.States, ErrorFn |-> [fn |-> "nil", set |-> <<>>]]

\* the bytes the inputs of a record are made of: 'a', newline and the two
\* bytes of U+00E9; for Number '1', '+', 'a', newline; for Quote '"', '\',
\* 'a', newline; for the digits and spaces '1', ' ', 'a', newline; for the
\* timezone '+', '1', ':', newline
Alphabet(rec) ==
    IF rec = numberRecord THEN {49, 43, 97, 10}
    ELSE IF rec = quoteRecord THEN {34, 92, 97, 10}
    ELSE IF rec = classRecord THEN {49, 32, 97, 10}
    ELSE IF rec = tzRecord THEN {43, 49, 58, 10}
    ELSE {97, 10, 195, 169}

RunOf(b, n) == [k \in 1..n |-> b]

\* runs of 'a' long enough for Skip to compact a buffer that holds unread
\* bytes: one byte short of CompactDiv, and of the gc allocator's 16 bytes
LongRuns == {CompactDiv - 1, 2 * 8 - 1}

LongInputs == {RunOf(97, n) \o t : n \in LongRuns, t \in {<<>>, <<10>>, <<10, 97>>}}

\* timezones "+1111" and "+11:11", alone and followed by ':' or a newline
TzInputs ==
    {z \o t : z \in {<<43, 49, 49, 49, 49>>, <<43, 49, 49, 58, 49, 49>>},
              t \in {<<>>, <<58>>, <<10>>}}

Inputs(rec) ==
    SeqsUpTo(Alphabet(rec), MaxLen) \cup (IF rec = tzRecord THEN TzInputs ELSE LongInputs)

NoFault == [at |-> 0, n |-> 1, err |-> "nil"]

\* the odd Read calls: no bytes and no error, no bytes and an error, one
\* byte and an error, and, where Read returns more than one byte, a single
\* byte and no error
Faults(bl) ==
    {NoFault} \cup
    {[at |-> k, n |-> n, err |-> er] :
        k \in 1..MaxFaultAt, n \in 0..1, er \in IF bl > 1 THEN {"nil", "err"} ELSE {"err"}}
    \cup {[at |-> k, n |-> 0, err |-> "nil"] : k \in 1..MaxFaultAt}

Sources(bl) ==
    {[fault |-> f, last |-> "nil"] : f \in Faults(bl)}
    \cup {[fault |-> NoFault, last |-> "EOF"]}

Env(rec, input, bl, src, g) ==
    [rec |-> rec, input |-> input, Buflen |-> bl, fault |-> src.fault,
     last |-> src.last, grow |-> g]

Start(e) ==
    /\ env = e
    /\ lex = NewLexer
    /\ pc = "new"
    /\ fi = 1
    /\ cont = NoCont
    /\ sending = <<>>
    /\ chanq = <<>>
    /\ closed = FALSE
    /\ cpc = "idle"
    /\ lastPos = 0
    /\ got = <<>>
    /\ trace = <<>>
    /\ emitLog = <<>>
    /\ sentLog = <<>>
    /\ recvLog = <<>>
    /\ starts = {}
    /\ ops = <<>>

\* what NewLexer is called with: a record it accepts with a Buflen of at
\* least 1, or one of these with no States, a Buflen of 0 or a nil ErrorFn
Refused ==
    {Env(rec, <<97>>, bl, [fault |-> NoFault, last |-> "nil"], "gc") :
        rec \in {aRecord, emptyRecord, nilErrorFnRecord}, bl \in 0..1}
    \ {Env(aRecord, <<97>>, 1, [fault |-> NoFault, last |-> "nil"], "gc")}

Init ==
    \/ \E rec \in Records : \E input \in Inputs(rec) :
       \E bl \in 1..MaxBuflen : \E src \in Sources(bl) : \E g \in {"gc", "exact"} :
           Start(Env(rec, input, bl, src, g))
    \/ \E e \in Refused : Start(e)

Spec == Init /\ [][Step]_vars

(***************************************************************************)
(* Properties of the record driver.                                        *)
(***************************************************************************)
IsCall(x) == x.ev # "emit"

\* the calls run() has made and that have returned, in order
Calls == SelectSeq(trace, IsCall)

Last(s) == s[Len(s)]

IsEmitOf(x, t) == x.ev = "emit" /\ x.item.Type = t

Returns(x, i, ok) == x.ev = "state" /\ x.i = i /\ x.ok = ok

Ended == pc \in {"close", "done"}

\* the order of the calls c: the first is field 1; after a success of a
\* field that is not the last comes the next field, after a failure the
\* recovery routine, after the recovery routine or a success of the last
\* field comes field 1 again
OrderedCalls(c) ==
    /\ c # <<>> => c[1].ev = "state" /\ c[1].i = 1
    /\ \A k \in 1..(Len(c) - 1) :
        /\ (c[k].ev = "state" /\ c[k].ok /\ c[k].i < Eor(env))
              => (c[k + 1].ev = "state" /\ c[k + 1].i = c[k].i + 1)
        /\ (c[k].ev = "state" /\ ~c[k].ok) => c[k + 1].ev = "error"
        /\ (c[k].ev = "error" \/ Returns(c[k], Eor(env), TRUE))
              => (c[k + 1].ev = "state" /\ c[k + 1].i = 1)

\* run() returns only after the recovery routine or after a success of the
\* last field
EndsRecord(c) ==
    (Ended /\ Len(trace) < MaxLog) =>
        (c # <<>> /\ (Last(c).ev = "error" \/ Returns(Last(c), Eor(env), TRUE)))

\* C1 (as amended): the driver invokes the field steps in order from field
\* 1; a step that succeeds is followed by the next step (the last step by
\* field 1 of the next record); a step that fails is followed by exactly one
\* call of the recovery routine and by none of the remaining steps; after
\* the recovery routine the next call, if run() makes one, is field 1; and
\* run() returns only after the recovery routine or the last field.
C1_FieldOrder == OrderedCalls(Calls) /\ EndsRecord(Calls)

\* C1 witness: a field that is not the last failed, the recovery routine
\* ran, and the next call was field 1
C1_Recovered ==
    \E k \in 1..(Len(Calls) - 2) :
        /\ Returns(Calls[k], 1, FALSE) /\ Eor(env) > 1
        /\ Calls[k + 1].ev = "error"
        /\ Calls[k + 2].ev = "state" /\ Calls[k + 2].i = 1

\* C1 (as stated): as C1_FieldOrder, and after the recovery routine the
\* driver always resumes at field 1, so run() never returns with the
\* recovery routine as its last call.
C1_ResumesAtFirstField ==
    /\ OrderedCalls(Calls)
    /\ (Ended /\ Len(trace) < MaxLog /\ Calls # <<>>) => Last(Calls).ev # "error"

EOFsIn(log) == {k \in 1..Len(log) : log[k].Type = ItemEOF}

\* ItemEOF is sent at most once and is the last item sent; the channel is
\* closed only after it, and nothing is sent once the channel is closed
EOFOnceAndLast ==
    /\ Cardinality(EOFsIn(emitLog)) <= 1
    /\ \A k \in EOFsIn(emitLog) : k = Len(emitLog)
    /\ closed => (sending = <<>> /\ emitLog # <<>>
                  /\ (Len(emitLog) < MaxLog => Last(emitLog).Type = ItemEOF))

\* run() is about to start a pass over the record with the Lexer and the
\* reader exactly as at the start of an earlier pass: run() is determined
\* by them, so it repeats that pass for ever and never sends ItemEOF
PassRepeats == pc = "state" /\ fi = 1 /\ lex \in starts

\* C2 (as stated): for any finite input ItemEOF is delivered exactly once:
\* run() does not go round for ever, ItemEOF is sent at most once and is the
\* last item sent, after it the channel is closed, and nothing is sent once
\* the channel is closed.
C2_EOFDelivered == ~PassRepeats /\ EOFOnceAndLast

\* C3 (as stated): ItemEOR is sent directly after each success of the last
\* field step, and after nothing else: never after a field step that is not
\* the last.
C3_EOROnlyAfterLastField ==
    \A k \in 1..Len(trace) :
        /\ IsEmitOf(trace[k], ItemEOR)
              => (k > 1 /\ Returns(trace[k - 1], Eor(env), TRUE))
        /\ (Returns(trace[k], Eor(env), TRUE) /\ k < Len(trace))
              => IsEmitOf(trace[k + 1], ItemEOR)

\* C4 (as stated): after the recovery routine has returned, the next item
\* sent is an ItemEOR.
C4_EORAfterRecovery ==
    \A k \in 1..(Len(trace) - 1) :
        trace[k].ev = "error" => IsEmitOf(trace[k + 1], ItemEOR)

\* C4 (as amended): no ItemEOR is sent for a record abandoned by a failed
\* step: every ItemEOR directly follows a field step that returned success,
\* and what follows the recovery routine is never an ItemEOR.
C4_NoEORAfterRecovery ==
    \A k \in 1..Len(trace) :
        /\ IsEmitOf(trace[k], ItemEOR) => (k > 1 /\ trace[k - 1].ev = "state" /\ trace[k - 1].ok)
        /\ (trace[k].ev = "error" /\ k < Len(trace)) => ~IsEmitOf(trace[k + 1], ItemEOR)

\* C4 witness: a step failed with an error token, the recovery routine ran,
\* and the next item sent was a token of the next record
C4_TokenAfterRecovery ==
    \E k \in 2..(Len(trace) - 1) :
        /\ trace[k].ev = "error"
        /\ trace[k - 1].ev = "state" /\ ~trace[k - 1].ok
        /\ IsEmitOf(trace[k + 1], ItemA)

\* a failing step that is needed sends its error token before it returns
ErrorBeforeReturn ==
    \A k \in 1..Len(trace) :
        (trace[k].ev = "state" /\ ~trace[k].ok /\ env.rec.States[trace[k].i].StateFn.needed)
            => (k > 1 /\ IsEmitOf(trace[k - 1], ItemError))

\* C5: the items NextItem has returned are the items the driver has sent, in
\* the order of the sends, none lost, doubled or reordered (at most the one
\* being sent is still to be received, and none once the channel is closed);
\* the error token of a failed step is sent before the step returns, so
\* before any token of the next record.
C5_ReceivedInOrder ==
    /\ IsPrefix(recvLog, emitLog)
    /\ Len(emitLog) <= Len(recvLog) + 1
    /\ (closed /\ sending = <<>>) => recvLog = emitLog
    /\ ErrorBeforeReturn

\* C5 witness: the consumer has received an error token and then a token of
\* a later record
C5_ErrorThenToken ==
    \E k \in 1..(Len(recvLog) - 1) :
        recvLog[k].Type = ItemError /\ recvLog[k + 1].Type = ItemA

(***************************************************************************)
(* Properties of the channel.                                              *)
(***************************************************************************)
\* an item the driver has begun to send has not been received yet
Pending == Len(emitLog) > Len(recvLog)

\* C6: the item channel is a rendezvous: at every instant the sends that
\* have completed are the items received; while an item the driver has begun
\* to send has not been received the driver does nothing (the Lexer and the
\* position of run() do not change); and NextItem returns only with an item
\* the driver is sending, or when the channel is closed.
C6_Rendezvous ==
    /\ [](Len(sentLog) = Len(recvLog))
    /\ [][/\ Pending => (lex' = lex /\ pc' = pc /\ fi' = fi /\ cont' = cont)
          /\ (cpc = "recv" /\ cpc' = "idle") => (sending # <<>> \/ closed)]_vars

\* C6 witness: the driver is blocked in the send of a later item, which the
\* consumer, back from an earlier NextItem, has not asked for yet
C6_BlockedInSend ==
    /\ sending # <<>> /\ cpc = "idle" /\ pc = "send"
    /\ Len(recvLog) >= 1 /\ Len(emitLog) = Len(recvLog) + 1

(***************************************************************************)
(* Properties of the positions and values of the tokens.                   *)
(***************************************************************************)
NotError(item) == item.Type # ItemError

\* the item's Value is the input from its Pos on
CutAtPos(item) ==
    /\ item.Pos >= 0
    /\ item.Pos + Len(item.Value) <= Len(env.input)
    /\ item.Value = Slice(env.input, item.Pos, item.Pos + Len(item.Value))

\* C7: every token sent by Emit carries as Pos the absolute offset in the
\* input of the first byte of its Value, however Skip has compacted the
\* buffer: Value = input[Pos .. Pos + len(Value)).
C7_PosIsOffset ==
    \A k \in 1..Len(emitLog) : NotError(emitLog[k]) => CutAtPos(emitLog[k])

\* each item of s ends where or before the next begins
Ordered(s) ==
    \A k \in 1..(Len(s) - 1) : s[k].Pos + Len(s[k].Value) <= s[k + 1].Pos

\* C8: the positions of the non-error tokens of a run never decrease, and no
\* two of the tokens overlap: every token ends at or before the Pos of the
\* next.
C8_PositionsOrdered == Ordered(SelectSeq(emitLog, NotError))

\* C8 witness: two tokens with bytes have been sent, the second further on
\* in the input than the end of the first
C8_TwoTokens ==
    \E k \in 1..(Len(emitLog) - 1) : \E j \in (k + 1)..Len(emitLog) :
        /\ emitLog[k].Type = ItemA /\ emitLog[k].Value # <<>>
        /\ emitLog[j].Type = ItemA /\ emitLog[j].Value # <<>>
        /\ emitLog[j].Pos > emitLog[k].Pos + Len(emitLog[k].Value)

\* the same record and input, read whole by the first Read into a buffer
\* that holds it all
Whole(e) ==
    [e EXCEPT !.Buflen = Len(e.input) + UTFMax, !.fault = NoFault, !.last = "nil"]

\* the reader only splits the input into reads: every Read returns bytes
\* and a nil error until none remain
SplitsOnly(e) == e.fault.err = "nil" /\ e.fault.n > 0 /\ e.last = "nil"

\* C9 (as stated): the items of a run (kinds, positions, values) are the
\* same for every Buflen and every split of the input into reads: they are
\* the items of the run that reads the input whole.
C9_SameItemsForEveryBuflen ==
    (SplitsOnly(env) /\ (Ended \/ Len(emitLog) = MaxLog))
        => emitLog = RunItems(Whole(env))

\* C10: with the single field AcceptRun("a"), emitted, and an input of N >= 1
\* characters 'a', the first item is one token of the field's type at Pos 0
\* whose Value is all N characters, for every Buflen and every reader that
\* returns no error but io.EOF.
C10_WholeRunOneToken ==
    (/\ env.rec = aRecord
     /\ env.fault.err = "nil"
     /\ env.input # <<>> /\ env.input = RunOf(97, Len(env.input))
     /\ emitLog # <<>>)
        => emitLog[1] = Item(ItemA, 0, env.input)

\* the input is k bytes that are neither 'a' nor a newline, then m newlines,
\* then one 'a'
Offending(input, k, m) ==
    /\ Len(input) = k + m + 1
    /\ \A j \in 1..k : input[j] \notin {97, 10}
    /\ \A j \in (k + 1)..(k + m) : input[j] = 10
    /\ input[k + m + 1] = 97

\* C11: with the single field AcceptRun("a"), emitted, and the recovery
\* routine SkipPast("\n"), on an input of k >= 1 characters (of one byte)
\* that are neither 'a' nor a newline, then m >= 1 newlines, then one 'a',
\* the first item is an ItemError at Pos 0 and the second item is the
\* field's token "a" at Pos k + m, for every reader that returns no error
\* but io.EOF.
C11_ErrorThenField ==
    \A k, m \in 1..Len(env.input) :
        (/\ env.rec = aRecord
         /\ env.fault.err = "nil"
         /\ Offending(env.input, k, m)
         /\ Ended)
            => /\ Len(emitLog) >= 2
               /\ emitLog[1].Type = ItemError /\ emitLog[1].Pos = 0
               /\ emitLog[2] = Item(ItemA, k + m, <<97>>)

\* C11 for the readers that only split the input into reads
C11_ErrorThenFieldSplitsOnly == SplitsOnly(env) => C11_ErrorThenField

\* the step with the description b reports its failure: Accept, AcceptRun,
\* Except and ExceptRun when needed, the other built-in steps always
Reports(b) ==
    b.fn \notin {"Accept", "AcceptRun", "Except", "ExceptRun"} \/ b.needed

\* the ItemError items sent in the call whose return is trace[j]: the sends
\* that precede it with no other call's return in between
ErrorsIn(j) ==
    {i \in 1..(j - 1) :
        /\ IsEmitOf(trace[i], ItemError)
        /\ \A h \in i..(j - 1) : trace[h].ev = "emit"}

\* the call after the one that returned at trace[j], if the trace has it,
\* is the recovery routine; and the trace has it once run() has returned
RecoveryFollows(j) ==
    /\ \A h \in (j + 1)..Len(trace) :
          (IsCall(trace[h]) /\ \A g \in (j + 1)..(h - 1) : ~IsCall(trace[g]))
              => trace[h].ev = "error"
    /\ (Ended /\ Len(trace) < MaxLog) => \E h \in (j + 1)..Len(trace) : trace[h].ev = "error"

Failures == {j \in 1..Len(trace) : trace[j].ev = "state" /\ ~trace[j].ok}

\* C12 (as amended): when the input source raises no read error, a built-in
\* field step that returns failure has sent exactly one ItemError during the
\* call if it is Quote, Digits, Letters, Spaces or Number, or one of Accept,
\* AcceptRun, Except, ExceptRun with needed true, and none if it is one of
\* these four with needed false; in both cases the driver runs the recovery
\* routine next.
C12_OneErrorIfNeeded ==
    env.fault.err = "nil" =>
        \A j \in Failures :
            /\ Cardinality(ErrorsIn(j)) =
                   IF Reports(env.rec.States[trace[j].i].StateFn) THEN 1 ELSE 0
            /\ RecoveryFollows(j)

\* C12 witness: a step with needed true failed after sending one ItemError,
\* the recovery routine ran and field 1 of the next record was called
C12_FailureReported ==
    /\ env.fault.err = "nil"
    /\ \E j \in Failures : \E h \in (j + 1)..Len(trace) : \E g \in (h + 1)..Len(trace) :
          /\ Cardinality(ErrorsIn(j)) = 1
          /\ trace[h].ev = "error"
          /\ trace[g].ev = "state" /\ trace[g].i = 1

\* C12 (as stated): when the input source raises no read error, every
\* built-in field step that returns failure, Accept, AcceptRun, Except and
\* ExceptRun with needed false included, has sent exactly one ItemError
\* during the call, and the driver runs the recovery routine next.
C12_OneErrorAlways ==
    env.fault.err = "nil" =>
        \A j \in Failures : Cardinality(ErrorsIn(j)) = 1 /\ RecoveryFollows(j)

(***************************************************************************)
(* Properties of the cursor, over the calls of Read, Next, Backup and Peek *)
(* in the call run() made last.                                            *)
(***************************************************************************)
SameCursor(l, l1) ==
    l1.buf = l.buf /\ l1.pos = l.pos /\ l1.start = l.start /\ l1.rpos = l.rpos

FailedReads == {j \in 1..Len(ops) : ops[j].op = "Read" /\ ops[j].err = "err"}

\* C13: when a Read returns an error other than io.EOF, the Next that made
\* it sends exactly one item, an ItemError whose Pos is rpos, and the Read
\* leaves the contents of the buffer, pos, start and rpos as they were,
\* whatever bytes it returned.
C13_ReadErrorReported ==
    \A j \in FailedReads :
        /\ SameCursor(ops[j].pre, ops[j].post)
        /\ ops[j].items = <<ErrItem(ops[j].pre.rpos, "%s: %v", 0)>>
        /\ ops[j + 1].op = "Next"
        /\ ops[j + 1].pre = ops[j].pre
        /\ ops[j + 1].items = ops[j].items

\* C13 witness: a Read has returned a byte together with an error
C13_ReadFailedWithData == \E j \in FailedReads : ops[j].n > 0

IsReadError(item) == item.Type = ItemError /\ item.Msg = "%s: %v"

NotReadError(item) == ~IsReadError(item)

\* C14: a Read that returns no bytes and an error other than io.EOF does not
\* end scanning: the driver reads on to the end of the input, and the items
\* of the run, but for the ItemError of the failed Read, are the items of
\* the run in which that Read does not fail: no character is consumed by a
\* Peek or kept by a Backup, and none is skipped.
C14_ScanningUnchanged ==
    (/\ env.fault.err = "err" /\ env.fault.n = 0
     /\ Ended /\ Len(emitLog) < MaxLog)
        => /\ lex.src = Len(env.input)
           /\ SelectSeq(emitLog, NotReadError) = RunItems([env EXCEPT !.fault = NoFault])

\* every field step of the record is one of the package's own
BuiltIn(rec) ==
    \A k \in 1..Len(rec.States) :
        rec.States[k].StateFn.fn \in
            {"Accept", "AcceptRun", "Except", "ExceptRun",
             "Quote", "Digits", "Letters", "Spaces", "Number"}

\* C15: with a reader that returns the bytes of a finite input and then a
\* clean end, and a record of built-in field steps, every pass over the
\* record that does not end the stream consumes input, so run() never
\* starts a pass with the Lexer and the reader as they were at the start of
\* an earlier pass: it comes to ItemEOF and stops.
C15_EveryPassConsumes == (SplitsOnly(env) /\ BuiltIn(env.rec)) => ~PassRepeats

\* the record has no States, or Buflen < 1, or a nil ErrorFn
Invalid(e) == Len(e.rec.States) = 0 \/ e.Buflen < 1 \/ e.rec.ErrorFn.fn = "nil"

\* C16: NewLexer returns an error and no lexer exactly when the record has
\* an empty States list, Buflen < 1 or a nil ErrorFn; it has then started no
\* driver task and read nothing from the input, and nothing happens after;
\* in every other case it returns a lexer, with run() started.
C16_NewLexerValidates ==
    /\ pc = "failed" =>
          /\ Invalid(env)
          /\ lex = NewLexer /\ ops = <<>> /\ trace = <<>> /\ emitLog = <<>>
          /\ sending = <<>> /\ ~closed /\ cpc = "idle" /\ got = <<>>
    /\ pc \notin {"new", "failed"} => ~Invalid(env)

\* C16 witness: NewLexer has returned an error for a record with States and
\* an ErrorFn whose Buflen is 0
C16_BuflenRefused ==
    pc = "failed" /\ env.Buflen < 1 /\ env.rec = aRecord

\* C17: after NextItem has returned an item, LastPos() is the Pos of the
\* item returned last; and LastPos() changes only in the step in which
\* NextItem returns: no step of the driver changes it.
C17_LastPosIsPosOfLastItem ==
    [][/\ got' # <<>> => LastPos' = got'[1].Pos
       /\ LastPos' # LastPos => (cpc = "recv" /\ cpc' = "idle")]_vars

\* C17 witness: NextItem has returned an item that is not at offset 0, and
\* the driver has gone on since
C17_LastPosMoved ==
    got # <<>> /\ got[1].Pos > 0 /\ LastPos = got[1].Pos /\ pc = "done"

\* 0 <= start <= pos <= len(buf)
InBounds(l) == 0 <= l.start /\ l.start <= l.pos /\ l.pos <= Len(l.buf)

\* C18: 0 <= start <= pos <= len(buf) holds of the Lexer between the calls
\* run() makes, at every send, and before and after every Read, Next,
\* Backup and Peek inside the built-in field steps, SkipPast and run().
C18_CursorInBounds ==
    BuiltIn(env.rec) =>
        /\ InBounds(lex)
        /\ \A j \in 1..Len(ops) : InBounds(ops[j].pre) /\ InBounds(ops[j].post)

\* C18 witness: a Backup has stepped back over a character that followed
\* others of the token, in a buffer that Skip has compacted before
C18_BackedUpInsideToken ==
    BuiltIn(env.rec) /\ \E j \in 1..Len(ops) :
        /\ ops[j].op = "Backup"
        /\ ops[j].post.pos < ops[j].pre.pos
        /\ ops[j].post.start < ops[j].post.pos
        /\ ops[j].pre.rpos > ops[j].pre.pos

Peeks == {j \in 1..Len(ops) : ops[j].op = "Peek"}

\* C19: a call of Peek leaves pos, rpos and start as they were and returns
\* the character that a call of Next then returns, whatever the Reads
\* returned before.
C19_PeekNeverConsumes ==
    \A j \in Peeks :
        /\ ops[j].post.pos = ops[j].pre.pos
        /\ ops[j].post.rpos = ops[j].pre.rpos
        /\ ops[j].post.start = ops[j].pre.start
        /\ ops[j].r = Next(env, Machine(ops[j].post)).r

\* C20: once a Next has returned EOF (l.eof is set), a Backup changes
\* nothing, and every later Next returns EOF again and leaves pos and rpos
\* as they were.
C20_EOFSticky ==
    \A j \in 1..Len(ops) :
        ops[j].pre.eof =>
            /\ ops[j].op = "Backup" => ops[j].post = ops[j].pre
            /\ ops[j].op = "Next" =>
                  /\ ops[j].r = EOF
                  /\ ops[j].post.pos = ops[j].pre.pos
                  /\ ops[j].post.rpos = ops[j].pre.rpos

\* the calls of Backup that follow a call of Backup with no Next in between
SecondBackups ==
    {j \in 1..Len(ops) :
        /\ ops[j].op = "Backup"
        /\ \E i \in 1..(j - 1) :
              /\ ops[i].op = "Backup"
              /\ \A h \in (i + 1)..(j - 1) : ops[h].op \notin {"Next", "Backup"}}

\* C21: a second consecutive Backup without a Next in between does not
\* corrupt the offsets: after it start <= pos and pos >= 0 hold, and rpos is
\* still the absolute offset of buf[pos] (rpos - pos is what it was).
C21_SecondBackupKeepsOffsets ==
    \A j \in SecondBackups :
        /\ ops[j].post.start <= ops[j].post.pos
        /\ ops[j].post.pos >= 0
        /\ ops[j].post.rpos - ops[j].post.pos = ops[j].pre.rpos - ops[j].pre.pos

\* the character of the input at the absolute offset of the cursor l, with
\* its width: EOF at the end of the input
CharAt(l) ==
    IF l.rpos >= Len(env.input) THEN [r |-> EOF, w |-> 0]
    ELSE DecodeRune(Slice(env.input, l.rpos, Len(env.input)))

\* the calls of the method op made with the cursor in bounds
CallsOf(op) == {j \in 1..Len(ops) : ops[j].op = op /\ InBounds(ops[j].pre)}

\* the call ops[j] has moved the cursor by w bytes
Moved(j, w) ==
    /\ ops[j].post.pos = ops[j].pre.pos + w
    /\ ops[j].post.rpos = ops[j].pre.rpos + w

\* C22: Lexer.Accept(valid) returns true, having advanced pos and rpos by
\* the width of the next character of the input, if that character is in
\* valid; otherwise, also at the end of the input, it returns false and
\* leaves pos and rpos as they were.
C22_AcceptOneOrNothing ==
    \A j \in CallsOf("Accept") :
        /\ ops[j].ok <=> IndexRune(ops[j].arg, CharAt(ops[j].pre).r) >= 0
        /\ Moved(j, IF ops[j].ok THEN CharAt(ops[j].pre).w ELSE 0)

\* RunEnd(rpos, s, in): the offset in the input where the maximal run from
\* rpos of characters that are (in = TRUE) or are not (in = FALSE) in the
\* set s ends
RECURSIVE RunEnd(_, _, _)
RunEnd(rpos, s, in) ==
    IF rpos >= Len(env.input) THEN rpos
    ELSE IF (IndexRune(s, DecodeRune(Slice(env.input, rpos, Len(env.input))).r) >= 0) # in
         THEN rpos
    ELSE RunEnd(rpos + DecodeRune(Slice(env.input, rpos, Len(env.input))).w, s, in)

RunCalls == {j \in 1..Len(ops) : ops[j].op \in {"AcceptRun", "ExceptRun"} /\ InBounds(ops[j].pre)}

\* C23: Lexer.AcceptRun(valid) and Lexer.ExceptRun(invalid) consume the
\* maximal run of matching characters of the input and return true iff the
\* call has consumed at least one character, also when pos > start on
\* entry.
C23_RunConsumedSomething ==
    \A j \in RunCalls :
        /\ ops[j].post.rpos = RunEnd(ops[j].pre.rpos, ops[j].arg, ops[j].op = "AcceptRun")
        /\ ops[j].post.pos - ops[j].pre.pos = ops[j].post.rpos - ops[j].pre.rpos
        /\ ops[j].ok <=> ops[j].post.pos > ops[j].pre.pos

\* C24: Lexer.Except(invalid) returns true only after consuming exactly one
\* character, which is not in invalid; when its Next returns the end
\* marker it consumes nothing and returns false.
C24_ExceptConsumesOne ==
    \A j \in CallsOf("Except") :
        /\ ops[j].post.pos - ops[j].pre.pos = ops[j].post.rpos - ops[j].pre.rpos
        /\ ops[j].ok => /\ ops[j].r # EOF
                        /\ IndexRune(ops[j].arg, ops[j].r) < 0
                        /\ ops[j].post.pos > ops[j].pre.pos
                        /\ ops[j].post.pos = ops[j].pre.pos + ops[j].post.width
        /\ ~ops[j].ok => ops[j].post.pos = ops[j].pre.pos

EmitCalls == CallsOf("Emit")

\* C25: Emit(t) sends one item {t, rpos - (pos - start), buf[start:pos]};
\* Emit and Skip return with start = pos, and with rpos and the unread
\* bytes buf[pos:] as they were, whether or not the buffer is compacted.
C25_EmitSendsSpanAndSkips ==
    /\ \A j \in EmitCalls :
          ops[j].items = <<Item(ops[j].arg[1],
                                ops[j].pre.rpos - (ops[j].pre.pos - ops[j].pre.start),
                                Slice(ops[j].pre.buf, ops[j].pre.start, ops[j].pre.pos))>>
    /\ \A j \in EmitCalls \cup CallsOf("Skip") :
          /\ ops[j].post.start = ops[j].post.pos
          /\ ops[j].post.rpos = ops[j].pre.rpos
          /\ Slice(ops[j].post.buf, ops[j].post.pos, Len(ops[j].post.buf))
                = Slice(ops[j].pre.buf, ops[j].pre.pos, Len(ops[j].pre.buf))

\* C25 witness: an Emit of a non-empty span has compacted a buffer that
\* held unread bytes
C25_EmitCompactedUnread ==
    \E j \in EmitCalls :
        /\ ops[j].pre.pos > ops[j].pre.start
        /\ ops[j].post.pos = 0
        /\ Len(ops[j].pre.buf) > ops[j].pre.pos
        /\ Len(ops[j].post.buf) < Len(ops[j].pre.buf)

\* the calls of built-in field steps, in the last call run() made, that
\* returned success
Succeeded ==
    {j \in 1..Len(ops) : /\ ops[j].op = "StateFn" /\ ops[j].ok
                         /\ BuiltIn(env.rec) /\ InBounds(ops[j].pre)}

\* C26 (as amended): a built-in field step that succeeds with emit = true
\* sends exactly one token, of the kind it was given, and with emit = false
\* none, in both cases apart from the ItemError of a Read that failed during
\* the step; it returns with start = pos.
C26_OneTokenIfEmit ==
    \A j \in Succeeded :
        /\ Len(SelectSeq(ops[j].items, NotReadError)) = IF ops[j].arg.Emit THEN 1 ELSE 0
        /\ \A k \in 1..Len(ops[j].items) :
              NotReadError(ops[j].items[k]) => ops[j].items[k].Type = ops[j].arg.ItemType
        /\ ops[j].post.start = ops[j].post.pos

\* C26 witness: a step with emit = false has succeeded after consuming
\* characters and has sent nothing
C26_SpanDiscarded ==
    \E j \in Succeeded :
        /\ ~ops[j].arg.Emit
        /\ ops[j].post.rpos > ops[j].pre.rpos
        /\ ops[j].items = <<>>

\* C26 (as stated): a built-in field step that succeeds with emit = true
\* sends exactly one token, of the kind it was given, and with emit = false
\* none; it returns with start = pos.
C26_OneTokenExactly ==
    \A j \in Succeeded :
        /\ Len(ops[j].items) = IF ops[j].arg.Emit THEN 1 ELSE 0
        /\ \A k \in 1..Len(ops[j].items) : ops[j].items[k].Type = ops[j].arg.ItemType
        /\ ops[j].post.start = ops[j].post.pos

\* the calls of built-in field steps, in the last call run() made, that
\* returned failure
Failed ==
    {j \in 1..Len(ops) : /\ ops[j].op = "StateFn" /\ ~ops[j].ok
                         /\ BuiltIn(env.rec) /\ InBounds(ops[j].pre)}

\* the last call of Next before the return ops[j], or 0
LastNext(j) ==
    IF \E i \in 1..(j - 1) : ops[i].op = "Next"
    THEN CHOOSE i \in 1..(j - 1) :
            ops[i].op = "Next" /\ \A h \in (i + 1)..(j - 1) : ops[h].op # "Next"
    ELSE 0

\* the step that returned at ops[j] has left the cursor where it was before
\* the call ops[i] of Next, with the character that call returned next
CursorBefore(i, j) ==
    /\ ops[j].post.rpos = ops[i].pre.rpos
    /\ ops[j].post.pos = ops[i].pre.pos
    /\ ops[j].post.pos < Len(ops[j].post.buf)
    /\ DecodeRune(Slice(ops[j].post.buf, ops[j].post.pos, Len(ops[j].post.buf))).r = ops[i].r

\* C27: when a built-in field step returns failure and the last character
\* it read is c, not the end marker, the cursor is left at c: rpos is the
\* offset of c and the next call of Next returns c.
C27_FailureLeavesCursorAtChar ==
    \A j \in Failed :
        (LastNext(j) > 0 /\ ops[LastNext(j)].r # EOF) => CursorBefore(LastNext(j), j)

\* the ItemError items that the step returning at ops[j] has sent for its
\* own failure: those that do not report a failed Read
OwnErrors(j) ==
    {k \in 1..Len(ops[j].items) :
        ops[j].items[k].Type = ItemError /\ NotReadError(ops[j].items[k])}

StepOf(j) == ops[j].arg.StateFn.fn

\* C28 (as amended): the ItemError sent by a failing built-in field step
\* carries as Pos the value of rpos when the error is reported.  For Accept,
\* AcceptRun, Except, ExceptRun, Digits, Letters, Spaces and Number this is
\* rpos on return of the step, and for the first seven, when the reader only
\* splits the input, the offset of the offending character; for Quote it is
\* rpos after the Next that read the offending character, the offset just
\* past that character.
C28_PosIsRposAtReport ==
    \A j \in Failed : \A k \in OwnErrors(j) :
        LastNext(j) > 0 =>
            /\ ops[j].items[k].Pos =
                   IF StepOf(j) = "Quote" THEN ops[LastNext(j)].post.rpos
                   ELSE ops[j].post.rpos
            /\ (SplitsOnly(env) /\ StepOf(j) \notin {"Quote", "Number"})
                   => ops[j].items[k].Pos = ops[LastNext(j)].pre.rpos

\* C28 witness: Quote has failed at a character and reported the offset
\* just past it, having backed up to the character
C28_QuoteReportsPastChar ==
    \E j \in Failed : \E k \in OwnErrors(j) :
        /\ StepOf(j) = "Quote"
        /\ LastNext(j) > 0
        /\ ops[LastNext(j)].r # EOF
        /\ ops[j].items[k].Pos = ops[j].post.rpos + ops[j].post.width
        /\ ops[j].post.rpos = ops[LastNext(j)].pre.rpos
        /\ ops[j].post.width > 0

\* C28 (as stated): the ItemError sent by a failing built-in field step
\* carries as Pos the offset of the offending character, the cursor before
\* the Next that read it, for every built-in step.
C28_PosIsOffendingOffset ==
    \A j \in Failed : \A k \in OwnErrors(j) :
        LastNext(j) > 0 => ops[j].items[k].Pos = ops[LastNext(j)].pre.rpos

\* C29: SkipPast(s), at any cursor position, sends nothing and leaves the
\* cursor past the maximal run of characters of s that follows the maximal
\* run of characters not in s, at the end of the input if there is none;
\* start = pos on return.
C29_SkipPastSeparators ==
    \A j \in CallsOf("SkipPast") :
        /\ ops[j].items = <<>>
        /\ ops[j].post.rpos = RunEnd(RunEnd(ops[j].pre.rpos, ops[j].arg, FALSE), ops[j].arg, TRUE)
        /\ ops[j].post.start = ops[j].post.pos

\* C30: on empty input the lexer for the record {AcceptRun("a", true), emit
\* true} with the recovery routine SkipPast("\n") delivers ItemEOF with Pos
\* 0 and an empty Value, and nothing before it.
C30_EmptyInputOnlyEOF ==
    (env.rec = aRecord /\ env.input = <<>>)
        => /\ IsPrefix(recvLog, <<Item(ItemEOF, 0, <<>>)>>)
           /\ (closed /\ sending = <<>>) => recvLog = <<Item(ItemEOF, 0, <<>>)>>

(***************************************************************************)
(* Properties of the two tasks.                                            *)
(***************************************************************************)
\* C31: while the driver is in a send that the consumer has not come to
\* receive, it stays in that send: no step of run() is possible, and as long
\* as the consumer is not in the receive of a NextItem nothing of the
\* driver's changes, neither a Lexer field nor the reader's position nor the
\* item it is sending.
C31_DriverStaysBlocked ==
    /\ [](sending # <<>> => (pc = "send" /\ ~ENABLED Driver))
    /\ [][(sending # <<>> /\ cpc' # "idle")
             => UNCHANGED <<lex, pc, fi, cont, sending, chanq, closed, emitLog, ops>>]_vars

\* C31 witness: the consumer has received an item and called NextItem no
\* more; the driver is in the send of the next item, which is not ItemEOF,
\* with input still unread by the reader
C31_StoppedBeforeEOF ==
    /\ sending # <<>> /\ cpc = "idle" /\ pc = "send"
    /\ recvLog # <<>>
    /\ sending[1].Type # ItemEOF
    /\ lex.src < Len(env.input)

\* the step is one of the consumer's: NextItem has been called or returns
ConsumerStep == cpc' # cpc

\* what run() and the calls it makes read and write: the Lexer fields but
\* lastPos, the reader, and the sending end of the channel and its close
DriverSide == <<lex, pc, fi, cont, closed, ops, emitLog, starts>>

\* C32: the steps of NextItem change lastPos and the receiving end of the
\* item channel and nothing of the driver's; NextItem returns the item it
\* received from the channel (the zero Item once the channel is closed and
\* empty) with lastPos set to its Pos, whatever the Lexer fields are; and
\* no step of the driver changes lastPos or what NextItem returned.
C32_TasksShareOnlyChannel ==
    [][/\ ConsumerStep => UNCHANGED DriverSide
       /\ (cpc = "recv" /\ cpc' = "idle")
             => /\ got'[1] = IF chanq # <<>> THEN Head(chanq)
                             ELSE IF sending # <<>> THEN sending[1]
                             ELSE ZeroItem
                /\ LastPos' = got'[1].Pos
       /\ ~ConsumerStep => UNCHANGED <<lastPos, got, recvLog>>]_vars

\* C32 witness: NextItem has returned an item that is not at offset 0, and
\* the driver, gone on since, is in the send of a later item with the cursor
\* past it
C32_BothTasksActed ==
    /\ got # <<>> /\ lastPos > 0
    /\ pc = "send" /\ sending # <<>> /\ cpc = "idle"
    /\ lex.rpos > lastPos
    /\ sending[1].Pos > lastPos

\* C33: a built-in field step that returns success has consumed at least
\* one character, and every token of a caller-defined kind it has sent has a
\* non-empty Value.
C33_SuccessConsumes ==
    \A j \in Succeeded :
        /\ ops[j].post.rpos > ops[j].pre.rpos
        /\ \A k \in 1..Len(ops[j].items) :
              ops[j].items[k].Type > ItemEOF => ops[j].items[k].Value # <<>>

Reads == {j \in 1..Len(ops) : ops[j].op = "Read"}

\* C34: the bytes a Read returns, those returned together with io.EOF or
\* another error too, are appended to the buffer.
C34_ReadBytesAppended ==
    \A j \in Reads :
        ops[j].post.buf =
            ops[j].pre.buf \o Slice(env.input, ops[j].pre.src, ops[j].pre.src + ops[j].n)

\* the bytes not yet passed by the cursor l: those in the buffer from pos
\* on, and those the reader still holds
Unread(l) == Slice(l.buf, l.pos, Len(l.buf)) \o Slice(env.input, l.src, Len(env.input))

\* the calls of Next at a whole multi-byte character
WholeCharNexts ==
    {j \in CallsOf("Next") :
        /\ Unread(ops[j].pre) # <<>>
        /\ DecodeRune(Unread(ops[j].pre)).w > 1}

\* C35: when the bytes at the cursor, in the buffer and still with the
\* reader, begin with a whole multi-byte character, Next returns that
\* character and advances by its width, whatever Buflen is and however the
\* reader splits the input.
C35_NextReturnsWholeChar ==
    \A j \in WholeCharNexts :
        /\ ops[j].r = DecodeRune(Unread(ops[j].pre)).r
        /\ ops[j].post.pos = ops[j].pre.pos + DecodeRune(Unread(ops[j].pre)).w

\* the consumer has received ItemEOF
EOFReceived == \E k \in 1..Len(recvLog) : recvLog[k].Type = ItemEOF

\* C36: once ItemEOF has been received nothing is left to receive and run()
\* is at its end: back from the send it has nothing more to send and closes
\* the channel without waiting for anything; a
\* NextItem called from then on is not kept waiting once the channel is
\* closed, and it returns the zero Item, whose Type is ItemError, with Pos 0
\* and an empty Value, and sets LastPos to 0.
C36_ZeroItemAfterEOF ==
    /\ [](EOFReceived =>
            /\ pc \in {"send", "close", "done"} /\ sending = <<>> /\ chanq = <<>>
            /\ pc = "send" => (cont.todo = <<>> /\ cont.pc = "close" /\ ENABLED Resume)
            /\ pc = "close" => ENABLED RunClose
            /\ pc = "done" => closed
            /\ (closed /\ cpc = "recv") => ENABLED NextItemClosed)
    /\ [][(EOFReceived /\ cpc = "recv" /\ cpc' = "idle")
             => /\ closed
                /\ got'[1].Type = ItemError /\ got'[1].Pos = 0 /\ got'[1].Value = <<>>
                /\ LastPos' = 0]_vars

\* C36 witness: ItemEOF was received at an offset other than 0, and a later
\* NextItem has returned the zero Item and set LastPos to 0
C36_ZeroItemReturned ==
    /\ recvLog # <<>> /\ Last(recvLog).Type = ItemEOF /\ Last(recvLog).Pos > 0
    /\ closed /\ cpc = "idle"
    /\ got = <<ZeroItem>> /\ LastPos = 0

\* the calls of Backup in the last call run() made
Backups == {j \in 1..Len(ops) : ops[j].op = "Backup"}

\* the call ops[j] comes after a call of Next, with no Backup, Emit or Skip
\* in between
AfterNext(j) ==
    \E i \in 1..(j - 1) :
        /\ ops[i].op = "Next"
        /\ \A h \in (i + 1)..(j - 1) : ops[h].op \notin {"Backup", "Emit", "Skip"}

\* C37: in the built-in field steps, SkipPast and run() every Backup follows
\* a Next of the same call, with no other Backup and no Emit or Skip between
\* the two; and no Backup leaves pos below start.
C37_OneBackupPerNext ==
    BuiltIn(env.rec) =>
        \A j \in Backups : AfterNext(j) /\ ops[j].post.pos >= ops[j].post.start

\* C37 witness: in one call, after a Skip, calls of Next have read
\* characters and a Backup has stepped back over the last of them
C37_BackupAfterSkipAndNext ==
    /\ BuiltIn(env.rec)
    /\ \E j \in Backups : \E i \in 1..(j - 1) :
          /\ ops[i].op = "Skip"
          /\ ops[j].post.pos < ops[j].pre.pos
          /\ ops[j].post.pos > ops[j].post.start

====
